---------------------------- MODULE Spec2Model ----------------------------
(***************************************************************************)
(* A model of mpd-utils: the per-host reconnecting client                  *)
(* (src/src/persistent_client.rs) and the multi-host client that selects   *)
(* the most relevant host (src/src/multi_host_client.rs).                  *)
(*                                                                         *)
(* Every lock acquisition, every broadcast send, subscribe and recv is one *)
(* atomic step; the steps of the background task of a host and the steps   *)
(* of the callers interleave freely (tokio's multi-threaded runtime).      *)
(***************************************************************************)
EXTENDS Integers, Sequences, FiniteSets, TLC

(***************************************************************************)
(* Bounds of the model.                                                    *)
(***************************************************************************)
NumHosts == 2
NumCallers == 2
MaxConnects == 2
MaxEvents == 34
MaxFeed == 4
SelHosts == 3

(***************************************************************************)
(* Program constants: the capacities of the two broadcast channels.        *)
(***************************************************************************)
EventCap == 32
ConnCap == 8

Hosts == 1..NumHosts
Callers == 1..NumCallers

\* State::Disconnected; State::Connected(client) is the client itself, and
\* a client (Arc<Client>) is the pair <<host, number of the session>>.
Disconnected == <<0, 0>>
NoClient == <<0, 0>>
NoSub == -1

PlayStates == {"Playing", "Paused", "Stopped"}

VARIABLES
    spc,        \* spc[h]: where the background task of host h is
    state,      \* state[h]: the Mutex<State> of host h
    nconn,      \* nconn[h]: the connections host h has accepted so far
    connChan,   \* connChan[h]: everything sent on connection_channel
    evChan,     \* evChan[h]: everything sent on channel (the events)
    evLeft,     \* evLeft[h]: the events the server of host h will still emit
    cop,        \* cop[c]: the operation caller c runs
    cpc,        \* cpc[c]: where caller c is in it
    tgt,        \* tgt[c]: the host of a call on one PersistentClient
    idx,        \* idx[c]: the client a combinator is polling
    cur,        \* cur[c][h]: position of c's receiver on connChan[h]
    got,        \* got[c][h]: the client wait_for_client gave c for host h
    conn,       \* conn[c]: connected_clients of get_current_client
    pst,        \* pst[c][h]: the outcome of the status query on host h
    sel,        \* sel[c]: the client get_current_client selected
    cli,        \* cli[c]: the client the final with_client obtained
    applied,    \* applied[c]: the clients the callback or command ran on
    ret,        \* ret[c]: what the call returned
    seen,       \* seen[c]: nconn[tgt[c]] when c read the state as Disconnected
    evn,        \* evn[c]: position of c's receiver on evChan[tgt[c]]
    log,        \* log[c]: what c's recv calls returned, in order
    lagged,     \* lagged[c]: a recv returned RecvError::Lagged
    evcur,      \* evcur[c][h]: position of c's receiver on evChan[h]
    selIn,      \* the (client, state) pairs given to the selection
    selOut      \* the client the selection returned

supVars == <<spc, state, nconn, connChan, evChan, evLeft>>
callVars == <<cop, cpc, tgt, idx, cur, got, conn, pst, sel, cli, applied, ret, seen>>
evVars == <<evn, log, lagged, evcur>>
selVars == <<selIn, selOut>>
vars == <<supVars, callVars, evVars, selVars>>

-----------------------------------------------------------------------------
(***************************************************************************)
(* tokio::sync::broadcast, as the program uses it.  A channel is the       *)
(* sequence of everything sent; a receiver is a position in it.  The       *)
(* channel retains the last `cap` values.                                  *)
(***************************************************************************)
SubscribePos(chan) == Len(chan)

RecvReady(chan, pos) == Len(chan) > pos

RecvLagged(chan, pos, cap) == Len(chan) - pos > cap

\* A receiver that always takes the newest value.
RecvValue_Latest(chan, pos) == chan[Len(chan)]

RecvValue(chan, pos) == chan[pos + 1]

\* A struct that keeps only the sender of connection_channel.
ConnReceivers_NoKept(h) == Cardinality({c \in Callers : cur[c][h] # NoSub})

\* The receivers of connection_channel of host h: the one the struct keeps
\* (connection_channel.1) and the ones of the pending wait_for_client calls.
ConnReceivers(h) == 1 + Cardinality({c \in Callers : cur[c][h] # NoSub})

\* The receivers of channel: channel.1 and the callers' receivers.
EventReceivers(h) ==
    1 + Cardinality({c \in Callers : tgt[c] = h /\ evn[c] # NoSub})
      + Cardinality({c \in Callers : evcur[c][h] # NoSub})

-----------------------------------------------------------------------------
(***************************************************************************)
(* PersistentClient::init: the background task of host h.                  *)
(***************************************************************************)
\* The connections the hosts have accepted so far, all together.
RECURSIVE SumTo(_, _)
SumTo(f, n) == IF n = 0 THEN 0 ELSE f[n] + SumTo(f, n - 1)

TotalConnects == SumTo(nconn, NumHosts)

CurrentClient(h) == <<h, nconn[h]>>

\* The session of client cl is open: its host accepted it and has not
\* closed it since.
SessionLive(cl) ==
    /\ cl # NoClient
    /\ spc[cl[1]] \in {"send", "events"}
    /\ nconn[cl[1]] = cl[2]

\* init(): spawn the task.
InitLoop(h) ==
    /\ spc[h] = "idle"
    /\ spc' = [spc EXCEPT ![h] = "connect"]
    /\ UNCHANGED <<state, nconn, connChan, evChan, evLeft>>
    /\ UNCHANGED <<callVars, evVars, selVars>>

\* A loop that sends the new client without storing it in the state.
ConnectOk_NoStore(h) ==
    /\ spc[h] = "connect"
    /\ TotalConnects < MaxConnects
    /\ nconn' = [nconn EXCEPT ![h] = @ + 1]
    /\ spc' = [spc EXCEPT ![h] = "send"]
    /\ UNCHANGED <<state, connChan, evChan, evLeft>>
    /\ UNCHANGED <<callVars, evVars, selVars>>

\* try_get_connection returned Ok: store State::Connected(client).
ConnectOk(h) ==
    /\ spc[h] = "connect"
    /\ TotalConnects < MaxConnects
    /\ nconn' = [nconn EXCEPT ![h] = @ + 1]
    /\ state' = [state EXCEPT ![h] = <<h, nconn[h] + 1>>]
    /\ spc' = [spc EXCEPT ![h] = "send"]
    /\ UNCHANGED <<connChan, evChan, evLeft>>
    /\ UNCHANGED <<callVars, evVars, selVars>>

\* conn_tx.send(client).expect(..): fails only without any receiver.
SendClient(h) ==
    /\ spc[h] = "send"
    /\ IF ConnReceivers(h) = 0
       THEN /\ spc' = [spc EXCEPT ![h] = "panicked"]
            /\ UNCHANGED connChan
       ELSE /\ connChan' = [connChan EXCEPT ![h] = Append(@, CurrentClient(h))]
            /\ spc' = [spc EXCEPT ![h] = "events"]
    /\ UNCHANGED <<state, nconn, evChan, evLeft>>
    /\ UNCHANGED <<callVars, evVars, selVars>>

\* The event the server of host h emits next: <<host, number>>.
NextEvent(h) == <<h, Len(evChan[h]) + 1>>

\* A send that waits until every receiver has room for the event.
ForwardEvent_Blocking(h) ==
    /\ spc[h] = "events"
    /\ evLeft[h] > 0
    /\ \A c \in Callers :
          (tgt[c] = h /\ evn[c] # NoSub) => Len(evChan[h]) - evn[c] < EventCap
    /\ evLeft' = [evLeft EXCEPT ![h] = @ - 1]
    /\ evChan' = [evChan EXCEPT ![h] = Append(@, <<h, Len(evChan[h]) + 1>>)]
    /\ UNCHANGED <<spc, state, nconn, connChan>>
    /\ UNCHANGED <<callVars, evVars, selVars>>

\* events.next() returned an event other than ConnectionClosed: tx.send.
ForwardEvent(h) ==
    /\ spc[h] = "events"
    /\ evLeft[h] > 0
    /\ evLeft' = [evLeft EXCEPT ![h] = @ - 1]
    /\ IF EventReceivers(h) = 0
       THEN /\ spc' = [spc EXCEPT ![h] = "panicked"]
            /\ UNCHANGED evChan
       ELSE /\ evChan' = [evChan EXCEPT ![h] = Append(@, NextEvent(h))]
            /\ UNCHANGED spc
    /\ UNCHANGED <<state, nconn, connChan>>
    /\ UNCHANGED <<callVars, evVars, selVars>>

\* A loop that reconnects at once when the session closes.
ConnectionClosed_NoSleep(h) ==
    /\ spc[h] = "events"
    /\ state' = [state EXCEPT ![h] = Disconnected]
    /\ spc' = [spc EXCEPT ![h] = "connect"]
    /\ UNCHANGED <<nconn, connChan, evChan, evLeft>>
    /\ UNCHANGED <<callVars, evVars, selVars>>

\* events.next() returned ConnectionClosed: State::Disconnected, break.
ConnectionClosed(h) ==
    /\ spc[h] = "events"
    /\ state' = [state EXCEPT ![h] = Disconnected]
    /\ spc' = [spc EXCEPT ![h] = "sleep"]
    /\ UNCHANGED <<nconn, connChan, evChan, evLeft>>
    /\ UNCHANGED <<callVars, evVars, selVars>>

\* events.next() returned None: the while-let ends, the state is left as
\* it is.
StreamEnd(h) ==
    /\ spc[h] = "events"
    /\ spc' = [spc EXCEPT ![h] = "sleep"]
    /\ UNCHANGED <<state, nconn, connChan, evChan, evLeft>>
    /\ UNCHANGED <<callVars, evVars, selVars>>

\* try_get_connection returned Err: State::Disconnected.
ConnectFail(h) ==
    /\ spc[h] = "connect"
    /\ state' = [state EXCEPT ![h] = Disconnected]
    /\ spc' = [spc EXCEPT ![h] = "sleep"]
    /\ UNCHANGED <<nconn, connChan, evChan, evLeft>>
    /\ UNCHANGED <<callVars, evVars, selVars>>

\* sleep(retry_interval) is over: the loop starts again.
Sleep(h) ==
    /\ spc[h] = "sleep"
    /\ spc' = [spc EXCEPT ![h] = "connect"]
    /\ UNCHANGED <<state, nconn, connChan, evChan, evLeft>>
    /\ UNCHANGED <<callVars, evVars, selVars>>

Supervisor(h) ==
    \/ InitLoop(h)
    \/ ConnectOk(h)
    \/ SendClient(h)
    \/ ForwardEvent(h)
    \/ ConnectionClosed(h)
    \/ StreamEnd(h)
    \/ ConnectFail(h)
    \/ Sleep(h)

-----------------------------------------------------------------------------
(***************************************************************************)
(* PersistentClient::is_connected and PersistentClient::wait_for_client.   *)
(***************************************************************************)
\* An is_connected that is true as soon as a connect attempt has ended.
IsConnected_Attempted(h) == spc[h] \notin {"idle", "connect"}

IsConnected(h) == state[h] # Disconnected

\* What a command on client cl may answer: a closed session only fails.
StatusOutcomes(cl) ==
    IF SessionLive(cl) THEN PlayStates \cup {"failed"} ELSE {"failed"}

Set(f, c, v) == [f EXCEPT ![c] = v]

Set2(f, c, h, v) == [f EXCEPT ![c][h] = v]

Returned(tag, val) == [tag |-> tag, val |-> val]

\* wait_for_client, first block: lock the state; return the client when
\* Connected.
WaitForClient_Read(c) ==
    /\ cop[c] = "wait_for_client"
    /\ cpc[c] = "read"
    /\ IF IsConnected(tgt[c])
       THEN /\ got' = Set2(got, c, tgt[c], state[tgt[c]])
            /\ ret' = Set(ret, c, Returned("Client", <<state[tgt[c]]>>))
            /\ cpc' = Set(cpc, c, "done")
            /\ UNCHANGED seen
       ELSE /\ cpc' = Set(cpc, c, "subscribe")
            /\ seen' = Set(seen, c, nconn[tgt[c]])
            /\ UNCHANGED <<got, ret>>
    /\ UNCHANGED <<cop, tgt, idx, cur, conn, pst, sel, cli, applied>>
    /\ UNCHANGED <<supVars, evVars, selVars>>

\* self.connection_channel.0.subscribe()
WaitForClient_Subscribe(c) ==
    /\ cop[c] = "wait_for_client"
    /\ cpc[c] = "subscribe"
    /\ cur' = Set2(cur, c, tgt[c], SubscribePos(connChan[tgt[c]]))
    /\ cpc' = Set(cpc, c, "recv")
    /\ UNCHANGED <<cop, tgt, idx, got, conn, pst, sel, cli, applied, ret, seen>>
    /\ UNCHANGED <<supVars, evVars, selVars>>

\* rx.recv().await.unwrap()
WaitForClient_Recv(c) ==
    /\ cop[c] = "wait_for_client"
    /\ cpc[c] = "recv"
    /\ RecvReady(connChan[tgt[c]], cur[c][tgt[c]])
    /\ cur' = Set2(cur, c, tgt[c], NoSub)
    /\ IF RecvLagged(connChan[tgt[c]], cur[c][tgt[c]], ConnCap)
       THEN /\ cpc' = Set(cpc, c, "panicked")
            /\ UNCHANGED <<got, ret>>
       ELSE /\ got' = Set2(got, c, tgt[c], RecvValue(connChan[tgt[c]], cur[c][tgt[c]]))
            /\ ret' = Set(ret, c, Returned("Client",
                            <<RecvValue(connChan[tgt[c]], cur[c][tgt[c]])>>))
            /\ cpc' = Set(cpc, c, "done")
    /\ UNCHANGED <<cop, tgt, idx, conn, pst, sel, cli, applied, seen>>
    /\ UNCHANGED <<supVars, evVars, selVars>>

WaitForClient(c) ==
    \/ WaitForClient_Read(c)
    \/ WaitForClient_Subscribe(c)
    \/ WaitForClient_Recv(c)

-----------------------------------------------------------------------------
(***************************************************************************)
(* PersistentClient::with_client and PersistentClient::command (status and *)
(* current_song are command with a fixed request): wait_for_client, then   *)
(* the callback runs on the client obtained: the command is sent on that   *)
(* client's session and its answer is awaited and returned.                *)
(***************************************************************************)
\* let client = self.wait_for_client().await: the state is read.
PersistentWith_Read(c) ==
    /\ cop[c] = "command"
    /\ cpc[c] = "read"
    /\ IF IsConnected(tgt[c])
       THEN /\ cli' = Set(cli, c, state[tgt[c]])
            /\ cpc' = Set(cpc, c, "call")
       ELSE /\ cpc' = Set(cpc, c, "subscribe")
            /\ UNCHANGED cli
    /\ UNCHANGED <<cop, tgt, idx, cur, got, conn, pst, sel, applied, ret, seen>>
    /\ UNCHANGED <<supVars, evVars, selVars>>

PersistentWith_Subscribe(c) ==
    /\ cop[c] = "command"
    /\ cpc[c] = "subscribe"
    /\ cur' = Set2(cur, c, tgt[c], SubscribePos(connChan[tgt[c]]))
    /\ cpc' = Set(cpc, c, "recv")
    /\ UNCHANGED <<cop, tgt, idx, got, conn, pst, sel, cli, applied, ret, seen>>
    /\ UNCHANGED <<supVars, evVars, selVars>>

PersistentWith_Recv(c) ==
    /\ cop[c] = "command"
    /\ cpc[c] = "recv"
    /\ RecvReady(connChan[tgt[c]], cur[c][tgt[c]])
    /\ cur' = Set2(cur, c, tgt[c], NoSub)
    /\ IF RecvLagged(connChan[tgt[c]], cur[c][tgt[c]], ConnCap)
       THEN /\ cpc' = Set(cpc, c, "panicked")
            /\ UNCHANGED cli
       ELSE /\ cli' = Set(cli, c, RecvValue(connChan[tgt[c]], cur[c][tgt[c]]))
            /\ cpc' = Set(cpc, c, "call")
    /\ UNCHANGED <<cop, tgt, idx, got, conn, pst, sel, applied, ret, seen>>
    /\ UNCHANGED <<supVars, evVars, selVars>>

\* f(client): the callback starts, the command is sent on the client.
PersistentWith_Call(c) ==
    /\ cop[c] = "command"
    /\ cpc[c] = "call"
    /\ applied' = Set(applied, c, Append(applied[c], cli[c]))
    /\ cpc' = Set(cpc, c, "reply")
    /\ UNCHANGED <<cop, tgt, idx, cur, got, conn, pst, sel, cli, ret, seen>>
    /\ UNCHANGED <<supVars, evVars, selVars>>

\* A command gateway that sends a failed command again.
PersistentWith_Reply_Retry(c) ==
    /\ cop[c] = "command"
    /\ cpc[c] = "reply"
    /\ \E r \in StatusOutcomes(cli[c]) :
          /\ pst' = Set2(pst, c, tgt[c], r)
          /\ IF r = "failed"
             THEN /\ cpc' = Set(cpc, c, "read")
                  /\ UNCHANGED ret
             ELSE /\ ret' = Set(ret, c, Returned(r, <<cli[c]>>))
                  /\ cpc' = Set(cpc, c, "done")
    /\ UNCHANGED <<cop, tgt, idx, cur, got, conn, sel, cli, applied, seen>>
    /\ UNCHANGED <<supVars, evVars, selVars>>

\* .await of the callback: the session answers, or the command fails
\* because the session is closed; the outcome is the result of the call.
PersistentWith_Reply(c) ==
    /\ cop[c] = "command"
    /\ cpc[c] = "reply"
    /\ \E r \in StatusOutcomes(cli[c]) :
          /\ pst' = Set2(pst, c, tgt[c], r)
          /\ ret' = Set(ret, c, Returned(r, <<cli[c]>>))
    /\ cpc' = Set(cpc, c, "done")
    /\ UNCHANGED <<cop, tgt, idx, cur, got, conn, sel, cli, applied, seen>>
    /\ UNCHANGED <<supVars, evVars, selVars>>

PersistentWith(c) ==
    \/ PersistentWith_Read(c)
    \/ PersistentWith_Subscribe(c)
    \/ PersistentWith_Recv(c)
    \/ PersistentWith_Call(c)
    \/ PersistentWith_Reply(c)

-----------------------------------------------------------------------------
(***************************************************************************)
(* MultiHostClient::wait_for_any_client: select_all over one               *)
(* wait_for_client per client.  The first poll runs the futures in         *)
(* registry order, each up to its first suspension; the first that is      *)
(* ready ends the call and the other futures are dropped.                  *)
(* get_current_client begins with the same call and discards its result.   *)
(***************************************************************************)
GccOps == {"with_client", "status", "current_song"}

AnyOps == {"wait_for_any_client"} \cup GccOps

NoSubs == [h \in Hosts |-> NoSub]

\* select_all is ready with `client`.
AnyResolved(c, client) ==
    /\ cur' = Set(cur, c, NoSubs)
    /\ IF cop[c] = "wait_for_any_client"
       THEN /\ ret' = Set(ret, c, Returned("Client", <<client>>))
            /\ cpc' = Set(cpc, c, "done")
            /\ UNCHANGED idx
       ELSE /\ cpc' = Set(cpc, c, "filter")
            /\ idx' = Set(idx, c, 1)
            /\ UNCHANGED ret

WaitForAny_Read(c) ==
    /\ cop[c] \in AnyOps
    /\ cpc[c] = "read"
    /\ IF IsConnected(idx[c])
       THEN AnyResolved(c, state[idx[c]])
       ELSE /\ cpc' = Set(cpc, c, "subscribe")
            /\ UNCHANGED <<cur, ret, idx>>
    /\ UNCHANGED <<cop, tgt, got, conn, pst, sel, cli, applied, seen>>
    /\ UNCHANGED <<supVars, evVars, selVars>>

WaitForAny_Subscribe(c) ==
    /\ cop[c] \in AnyOps
    /\ cpc[c] = "subscribe"
    /\ cur' = Set2(cur, c, idx[c], SubscribePos(connChan[idx[c]]))
    /\ cpc' = Set(cpc, c, "poll")
    /\ UNCHANGED <<cop, tgt, idx, got, conn, pst, sel, cli, applied, ret, seen>>
    /\ UNCHANGED <<supVars, evVars, selVars>>

\* The first poll of rx.recv() of client idx[c]; when it is pending,
\* select_all polls the next client.
WaitForAny_Poll(c) ==
    /\ cop[c] \in AnyOps
    /\ cpc[c] = "poll"
    /\ IF RecvReady(connChan[idx[c]], cur[c][idx[c]])
       THEN IF RecvLagged(connChan[idx[c]], cur[c][idx[c]], ConnCap)
            THEN /\ cpc' = Set(cpc, c, "panicked")
                 /\ UNCHANGED <<cur, ret, idx>>
            ELSE AnyResolved(c, RecvValue(connChan[idx[c]], cur[c][idx[c]]))
       ELSE /\ IF idx[c] < NumHosts
               THEN /\ idx' = Set(idx, c, idx[c] + 1)
                    /\ cpc' = Set(cpc, c, "read")
               ELSE /\ cpc' = Set(cpc, c, "wait")
                    /\ UNCHANGED idx
            /\ UNCHANGED <<cur, ret>>
    /\ UNCHANGED <<cop, tgt, got, conn, pst, sel, cli, applied, seen>>
    /\ UNCHANGED <<supVars, evVars, selVars>>

\* A later poll: the receiver of client h has a value.
WaitForAny_Wake(c, h) ==
    /\ cop[c] \in AnyOps
    /\ cpc[c] = "wait"
    /\ cur[c][h] # NoSub
    /\ RecvReady(connChan[h], cur[c][h])
    /\ IF RecvLagged(connChan[h], cur[c][h], ConnCap)
       THEN /\ cpc' = Set(cpc, c, "panicked")
            /\ UNCHANGED <<cur, ret, idx>>
       ELSE AnyResolved(c, RecvValue(connChan[h], cur[c][h]))
    /\ UNCHANGED <<cop, tgt, got, conn, pst, sel, cli, applied, seen>>
    /\ UNCHANGED <<supVars, evVars, selVars>>

WaitForAny(c) ==
    \/ WaitForAny_Read(c)
    \/ WaitForAny_Subscribe(c)
    \/ WaitForAny_Poll(c)
    \/ \E h \in Hosts : WaitForAny_Wake(c, h)

-----------------------------------------------------------------------------
(***************************************************************************)
(* MultiHostClient::wait_for_all_clients: join_all over one                *)
(* wait_for_client per client; the result holds the clients in registry    *)
(* order.                                                                  *)
(***************************************************************************)
\* A join that is ready with the first output.
AllReady_Any(g) == \E h \in Hosts : g[h] # NoClient

\* join_all is ready when every future has its output.
AllReady(g) == \A h \in Hosts : g[h] # NoClient

AllOutput(g) == [i \in 1..NumHosts |-> g[i]]

\* The future of client idx[c] was polled for the first time, and the
\* outputs are now g: poll the next one, or finish the first poll.
AllAdvance(c, g) ==
    /\ got' = Set(got, c, g)
    /\ IF idx[c] < NumHosts
       THEN /\ idx' = Set(idx, c, idx[c] + 1)
            /\ cpc' = Set(cpc, c, "read")
            /\ UNCHANGED ret
       ELSE /\ UNCHANGED idx
            /\ IF AllReady(g)
               THEN /\ ret' = Set(ret, c, Returned("Clients", AllOutput(g)))
                    /\ cpc' = Set(cpc, c, "done")
               ELSE /\ cpc' = Set(cpc, c, "wait")
                    /\ UNCHANGED ret

WaitForAll_Read(c) ==
    /\ cop[c] = "wait_for_all_clients"
    /\ cpc[c] = "read"
    /\ IF IsConnected(idx[c])
       THEN AllAdvance(c, [got[c] EXCEPT ![idx[c]] = state[idx[c]]])
       ELSE /\ cpc' = Set(cpc, c, "subscribe")
            /\ UNCHANGED <<got, idx, ret>>
    /\ UNCHANGED <<cop, tgt, cur, conn, pst, sel, cli, applied, seen>>
    /\ UNCHANGED <<supVars, evVars, selVars>>

WaitForAll_Subscribe(c) ==
    /\ cop[c] = "wait_for_all_clients"
    /\ cpc[c] = "subscribe"
    /\ cur' = Set2(cur, c, idx[c], SubscribePos(connChan[idx[c]]))
    /\ cpc' = Set(cpc, c, "poll")
    /\ UNCHANGED <<cop, tgt, idx, got, conn, pst, sel, cli, applied, ret, seen>>
    /\ UNCHANGED <<supVars, evVars, selVars>>

WaitForAll_Poll(c) ==
    /\ cop[c] = "wait_for_all_clients"
    /\ cpc[c] = "poll"
    /\ IF RecvReady(connChan[idx[c]], cur[c][idx[c]])
       THEN IF RecvLagged(connChan[idx[c]], cur[c][idx[c]], ConnCap)
            THEN /\ cpc' = Set(cpc, c, "panicked")
                 /\ UNCHANGED <<cur, got, idx, ret>>
            ELSE /\ cur' = Set2(cur, c, idx[c], NoSub)
                 /\ AllAdvance(c, [got[c] EXCEPT ![idx[c]] =
                                     RecvValue(connChan[idx[c]], cur[c][idx[c]])])
       ELSE /\ AllAdvance(c, got[c])
            /\ UNCHANGED cur
    /\ UNCHANGED <<cop, tgt, conn, pst, sel, cli, applied, seen>>
    /\ UNCHANGED <<supVars, evVars, selVars>>

\* A later poll: the receiver of client h has a value; join_all is ready
\* with the last output.
WaitForAll_Wake(c, h) ==
    /\ cop[c] = "wait_for_all_clients"
    /\ cpc[c] = "wait"
    /\ cur[c][h] # NoSub
    /\ RecvReady(connChan[h], cur[c][h])
    /\ IF RecvLagged(connChan[h], cur[c][h], ConnCap)
       THEN /\ cpc' = Set(cpc, c, "panicked")
            /\ UNCHANGED <<cur, got, ret>>
       ELSE /\ cur' = Set2(cur, c, h, NoSub)
            /\ got' = Set2(got, c, h, RecvValue(connChan[h], cur[c][h]))
            /\ IF AllReady([got[c] EXCEPT ![h] = RecvValue(connChan[h], cur[c][h])])
               THEN /\ ret' = Set(ret, c, Returned("Clients",
                                AllOutput([got[c] EXCEPT ![h] =
                                             RecvValue(connChan[h], cur[c][h])])))
                    /\ cpc' = Set(cpc, c, "done")
               ELSE UNCHANGED <<ret, cpc>>
    /\ UNCHANGED <<cop, tgt, idx, conn, pst, sel, cli, applied, seen>>
    /\ UNCHANGED <<supVars, evVars, selVars>>

WaitForAll(c) ==
    \/ WaitForAll_Read(c)
    \/ WaitForAll_Subscribe(c)
    \/ WaitForAll_Poll(c)
    \/ \E h \in Hosts : WaitForAll_Wake(c, h)

-----------------------------------------------------------------------------
(***************************************************************************)
(* MultiHostClient::get_current_client, after wait_for_any_client: the     *)
(* filter on is_connected(), the status queries (join_all over             *)
(* client.status() of every connected client) and the selection.           *)
(***************************************************************************)
Min(S) == CHOOSE x \in S : \A y \in S : x <= y

\* The elements of a set of hosts in registry order.
InOrder(S) ==
    [i \in 1..Cardinality(S) |->
        CHOOSE x \in S : Cardinality({y \in S : y < x}) = i - 1]

\* iter().find(|(_, state)| state == st): the index of the first pair with
\* state st, from index i on; 0 when there is none.
RECURSIVE Find(_, _, _)
Find(pairs, st, i) ==
    IF i > Len(pairs) THEN 0
    ELSE IF pairs[i][2] = st THEN i
    ELSE Find(pairs, st, i + 1)

\* A selection that prefers a paused client to a playing one.
SelectCurrent_PausedFirst(pairs) ==
    IF Find(pairs, "Paused", 1) # 0 THEN pairs[Find(pairs, "Paused", 1)][1]
    ELSE IF Find(pairs, "Playing", 1) # 0 THEN pairs[Find(pairs, "Playing", 1)][1]
    ELSE IF Find(pairs, "Stopped", 1) # 0 THEN pairs[Find(pairs, "Stopped", 1)][1]
    ELSE 0

\* find Playing, or_else find Paused, or_else find Stopped, then
\* map(|(client, _)| client); 0 is None.
SelectCurrent(pairs) ==
    IF Find(pairs, "Playing", 1) # 0 THEN pairs[Find(pairs, "Playing", 1)][1]
    ELSE IF Find(pairs, "Paused", 1) # 0 THEN pairs[Find(pairs, "Paused", 1)][1]
    ELSE IF Find(pairs, "Stopped", 1) # 0 THEN pairs[Find(pairs, "Stopped", 1)][1]
    ELSE 0

\* A collect that drops the failed queries instead of failing.
FirstFailed_Dropped(pairs) == 0

\* collect::<Result<Vec<_>, _>>(): the first Err in the order of the
\* futures; 0 when every query succeeded.
FirstFailed(pairs) ==
    IF Find(pairs, "failed", 1) # 0 THEN pairs[Find(pairs, "failed", 1)][1] ELSE 0

\* The outputs of the status futures, in the order of connected_clients.
StatusPairs(c) ==
    [i \in 1..Cardinality(conn[c]) |->
        <<InOrder(conn[c])[i], pst[c][InOrder(conn[c])[i]]>>]

\* connected_clients after client idx[c] went through the filter.
Filtered(c) == IF IsConnected(idx[c]) THEN conn[c] \cup {idx[c]} ELSE conn[c]

\* .filter(|client| client.is_connected()), one client at a time; an empty
\* result is Ok(None), which every caller turns into NoHostConnectedError.
GetCurrent_Filter(c) ==
    /\ cop[c] \in GccOps
    /\ cpc[c] = "filter"
    /\ conn' = Set(conn, c, Filtered(c))
    /\ IF idx[c] < NumHosts
       THEN /\ idx' = Set(idx, c, idx[c] + 1)
            /\ UNCHANGED <<cpc, ret>>
       ELSE IF Filtered(c) = {}
            THEN /\ ret' = Set(ret, c, Returned("NoHostConnectedError", <<>>))
                 /\ cpc' = Set(cpc, c, "done")
                 /\ UNCHANGED idx
            ELSE /\ idx' = Set(idx, c, Min(Filtered(c)))
                 /\ cpc' = Set(cpc, c, "s_read")
                 /\ UNCHANGED ret
    /\ UNCHANGED <<cop, tgt, cur, got, pst, sel, cli, applied, seen>>
    /\ UNCHANGED <<supVars, evVars, selVars>>

\* The status future of client idx[c] was polled for the first time:
\* poll the next connected client, or finish the first poll of join_all.
StatusAdvance(c) ==
    IF \E h \in conn[c] : h > idx[c]
    THEN /\ idx' = Set(idx, c, Min({h \in conn[c] : h > idx[c]}))
         /\ cpc' = Set(cpc, c, "s_read")
    ELSE /\ cpc' = Set(cpc, c, "s_wait")
         /\ UNCHANGED idx

\* client.status() -> command -> with_client -> wait_for_client: the
\* state is read again; the command goes to the client found.
Status_Read(c) ==
    /\ cop[c] \in GccOps
    /\ cpc[c] = "s_read"
    /\ IF IsConnected(idx[c])
       THEN /\ got' = Set2(got, c, idx[c], state[idx[c]])
            /\ StatusAdvance(c)
       ELSE /\ cpc' = Set(cpc, c, "s_subscribe")
            /\ UNCHANGED <<got, idx>>
    /\ UNCHANGED <<cop, tgt, cur, conn, pst, sel, cli, applied, ret, seen>>
    /\ UNCHANGED <<supVars, evVars, selVars>>

Status_Subscribe(c) ==
    /\ cop[c] \in GccOps
    /\ cpc[c] = "s_subscribe"
    /\ cur' = Set2(cur, c, idx[c], SubscribePos(connChan[idx[c]]))
    /\ cpc' = Set(cpc, c, "s_poll")
    /\ UNCHANGED <<cop, tgt, idx, got, conn, pst, sel, cli, applied, ret, seen>>
    /\ UNCHANGED <<supVars, evVars, selVars>>

Status_Poll(c) ==
    /\ cop[c] \in GccOps
    /\ cpc[c] = "s_poll"
    /\ IF RecvReady(connChan[idx[c]], cur[c][idx[c]])
       THEN IF RecvLagged(connChan[idx[c]], cur[c][idx[c]], ConnCap)
            THEN /\ cpc' = Set(cpc, c, "panicked")
                 /\ UNCHANGED <<cur, got, idx>>
            ELSE /\ cur' = Set2(cur, c, idx[c], NoSub)
                 /\ got' = Set2(got, c, idx[c],
                                RecvValue(connChan[idx[c]], cur[c][idx[c]]))
                 /\ StatusAdvance(c)
       ELSE /\ StatusAdvance(c)
            /\ UNCHANGED <<cur, got>>
    /\ UNCHANGED <<cop, tgt, conn, pst, sel, cli, applied, ret, seen>>
    /\ UNCHANGED <<supVars, evVars, selVars>>

\* A later poll: the receiver of client h has a value, the command goes to
\* it.
Status_Wake(c, h) ==
    /\ cop[c] \in GccOps
    /\ cpc[c] = "s_wait"
    /\ cur[c][h] # NoSub
    /\ RecvReady(connChan[h], cur[c][h])
    /\ IF RecvLagged(connChan[h], cur[c][h], ConnCap)
       THEN /\ cpc' = Set(cpc, c, "panicked")
            /\ UNCHANGED <<cur, got>>
       ELSE /\ cur' = Set2(cur, c, h, NoSub)
            /\ got' = Set2(got, c, h, RecvValue(connChan[h], cur[c][h]))
            /\ UNCHANGED cpc
    /\ UNCHANGED <<cop, tgt, idx, conn, pst, sel, cli, applied, ret, seen>>
    /\ UNCHANGED <<supVars, evVars, selVars>>

\* A status query that marks the host Disconnected when it fails.
Status_Reply_MarksDisconnected(c, h) ==
    /\ cop[c] \in GccOps
    /\ cpc[c] \in {"s_read", "s_subscribe", "s_poll", "s_wait"}
    /\ h \in conn[c]
    /\ got[c][h] # NoClient
    /\ pst[c][h] = "none"
    /\ \E r \in StatusOutcomes(got[c][h]) :
          /\ pst' = Set2(pst, c, h, r)
          /\ state' = IF r = "failed" THEN [state EXCEPT ![h] = Disconnected]
                                      ELSE state
    /\ UNCHANGED <<cop, cpc, tgt, idx, cur, got, conn, sel, cli, applied, ret, seen>>
    /\ UNCHANGED <<spc, nconn, connChan, evChan, evLeft>>
    /\ UNCHANGED <<evVars, selVars>>

\* client.command(commands::Status) on the client of host h answers.
Status_Reply(c, h) ==
    /\ cop[c] \in GccOps
    /\ cpc[c] \in {"s_read", "s_subscribe", "s_poll", "s_wait"}
    /\ h \in conn[c]
    /\ got[c][h] # NoClient
    /\ pst[c][h] = "none"
    /\ \E r \in StatusOutcomes(got[c][h]) : pst' = Set2(pst, c, h, r)
    /\ UNCHANGED <<cop, cpc, tgt, idx, cur, got, conn, sel, cli, applied, ret, seen>>
    /\ UNCHANGED <<supVars, evVars, selVars>>

\* join_all is ready: collect the results and select.  Err(err) becomes
\* Error::CommandError(err) and Ok(None) NoHostConnectedError in every
\* caller of get_current_client.
GetCurrent_Select(c) ==
    /\ cop[c] \in GccOps
    /\ cpc[c] = "s_wait"
    /\ \A h \in conn[c] : pst[c][h] # "none"
    /\ IF FirstFailed(StatusPairs(c)) # 0
       THEN /\ ret' = Set(ret, c, Returned("CommandError",
                                           <<got[c][FirstFailed(StatusPairs(c))]>>))
            /\ cpc' = Set(cpc, c, "done")
            /\ UNCHANGED sel
       ELSE IF SelectCurrent(StatusPairs(c)) = 0
            THEN /\ ret' = Set(ret, c, Returned("NoHostConnectedError", <<>>))
                 /\ cpc' = Set(cpc, c, "done")
                 /\ UNCHANGED sel
            ELSE /\ sel' = Set(sel, c, SelectCurrent(StatusPairs(c)))
                 /\ cpc' = Set(cpc, c, "f_read")
                 /\ UNCHANGED ret
    /\ UNCHANGED <<cop, tgt, idx, cur, got, conn, pst, cli, applied, seen>>
    /\ UNCHANGED <<supVars, evVars, selVars>>

GetCurrent(c) ==
    \/ GetCurrent_Filter(c)
    \/ Status_Read(c)
    \/ Status_Subscribe(c)
    \/ Status_Poll(c)
    \/ \E h \in Hosts : Status_Wake(c, h)
    \/ \E h \in Hosts : Status_Reply(c, h)
    \/ GetCurrent_Select(c)

-----------------------------------------------------------------------------
(***************************************************************************)
(* MultiHostClient::with_client, status and current_song on the selected   *)
(* client: PersistentClient::with_client waits for a client of that host   *)
(* and runs the callback (or the command) on it.                           *)
(***************************************************************************)
Selected_Read(c) ==
    /\ cop[c] \in GccOps
    /\ cpc[c] = "f_read"
    /\ IF IsConnected(sel[c])
       THEN /\ cli' = Set(cli, c, state[sel[c]])
            /\ cpc' = Set(cpc, c, "f_apply")
       ELSE /\ cpc' = Set(cpc, c, "f_subscribe")
            /\ UNCHANGED cli
    /\ UNCHANGED <<cop, tgt, idx, cur, got, conn, pst, sel, applied, ret, seen>>
    /\ UNCHANGED <<supVars, evVars, selVars>>

Selected_Subscribe(c) ==
    /\ cop[c] \in GccOps
    /\ cpc[c] = "f_subscribe"
    /\ cur' = Set2(cur, c, sel[c], SubscribePos(connChan[sel[c]]))
    /\ cpc' = Set(cpc, c, "f_recv")
    /\ UNCHANGED <<cop, tgt, idx, got, conn, pst, sel, cli, applied, ret, seen>>
    /\ UNCHANGED <<supVars, evVars, selVars>>

Selected_Recv(c) ==
    /\ cop[c] \in GccOps
    /\ cpc[c] = "f_recv"
    /\ RecvReady(connChan[sel[c]], cur[c][sel[c]])
    /\ cur' = Set2(cur, c, sel[c], NoSub)
    /\ IF RecvLagged(connChan[sel[c]], cur[c][sel[c]], ConnCap)
       THEN /\ cpc' = Set(cpc, c, "panicked")
            /\ UNCHANGED cli
       ELSE /\ cli' = Set(cli, c, RecvValue(connChan[sel[c]], cur[c][sel[c]]))
            /\ cpc' = Set(cpc, c, "f_apply")
    /\ UNCHANGED <<cop, tgt, idx, got, conn, pst, sel, applied, ret, seen>>
    /\ UNCHANGED <<supVars, evVars, selVars>>

\* A with_client that runs the callback on the client whose status was
\* queried during selection.
WithClient_Apply_Queried(c) ==
    /\ cop[c] = "with_client"
    /\ cpc[c] = "f_apply"
    /\ applied' = Set(applied, c, Append(applied[c], got[c][sel[c]]))
    /\ ret' = Set(ret, c, Returned("Ok", <<got[c][sel[c]]>>))
    /\ cpc' = Set(cpc, c, "done")
    /\ UNCHANGED <<cop, tgt, idx, cur, got, conn, pst, sel, cli, seen>>
    /\ UNCHANGED <<supVars, evVars, selVars>>

\* with_client: Ok(client.with_client(f).await); the callback runs once, on
\* the client obtained, and its result is returned.
WithClient_Apply(c) ==
    /\ cop[c] = "with_client"
    /\ cpc[c] = "f_apply"
    /\ applied' = Set(applied, c, Append(applied[c], cli[c]))
    /\ ret' = Set(ret, c, Returned("Ok", <<cli[c]>>))
    /\ cpc' = Set(cpc, c, "done")
    /\ UNCHANGED <<cop, tgt, idx, cur, got, conn, pst, sel, cli, seen>>
    /\ UNCHANGED <<supVars, evVars, selVars>>

\* status, current_song: the command runs once on the client obtained;
\* its failure is mapped to Error::CommandError.
Command_Apply(c) ==
    /\ cop[c] \in {"status", "current_song"}
    /\ cpc[c] = "f_apply"
    /\ applied' = Set(applied, c, Append(applied[c], cli[c]))
    /\ \E r \in StatusOutcomes(cli[c]) :
          ret' = Set(ret, c, Returned(IF r = "failed" THEN "CommandError" ELSE "Ok",
                                      <<cli[c]>>))
    /\ cpc' = Set(cpc, c, "done")
    /\ UNCHANGED <<cop, tgt, idx, cur, got, conn, pst, sel, cli, seen>>
    /\ UNCHANGED <<supVars, evVars, selVars>>

OnSelected(c) ==
    \/ Selected_Read(c)
    \/ Selected_Subscribe(c)
    \/ Selected_Recv(c)
    \/ WithClient_Apply(c)
    \/ Command_Apply(c)

-----------------------------------------------------------------------------
(***************************************************************************)
(* PersistentClient::subscribe and PersistentClient::recv.                 *)
(***************************************************************************)
\* What rx.recv() returns at position pos of the event channel:
\* Err(RecvError::Lagged(n)), written <<0, n>>, when the channel no longer
\* holds that position, and the event at that position otherwise.
EventRecv(chan, pos) ==
    IF RecvLagged(chan, pos, EventCap)
    THEN <<0, Len(chan) - EventCap - pos>>
    ELSE RecvValue(chan, pos)

\* The position of the receiver after that recv: the oldest value the
\* channel holds after a lag, the next value otherwise.
EventNext(chan, pos) ==
    IF RecvLagged(chan, pos, EventCap) THEN Len(chan) - EventCap ELSE pos + 1

\* subscribe(): self.channel.0.subscribe(), the receiver is the caller's.
Subscribe(c) ==
    /\ cop[c] = "subscribe"
    /\ cpc[c] = "subscribe"
    /\ evn' = Set(evn, c, SubscribePos(evChan[tgt[c]]))
    /\ seen' = Set(seen, c, SubscribePos(evChan[tgt[c]]))
    /\ cpc' = Set(cpc, c, "recv")
    /\ UNCHANGED <<cop, tgt, idx, cur, got, conn, pst, sel, cli, applied, ret>>
    /\ UNCHANGED <<log, lagged, evcur>>
    /\ UNCHANGED <<supVars, selVars>>

\* The caller reads its receiver: rx.recv().await, again and again.
Subscriber_Recv(c) ==
    /\ cop[c] = "subscribe"
    /\ cpc[c] = "recv"
    /\ RecvReady(evChan[tgt[c]], evn[c])
    /\ log' = Set(log, c, Append(log[c], EventRecv(evChan[tgt[c]], evn[c])))
    /\ lagged' = Set(lagged, c, lagged[c] \/ RecvLagged(evChan[tgt[c]], evn[c], EventCap))
    /\ evn' = Set(evn, c, EventNext(evChan[tgt[c]], evn[c]))
    /\ UNCHANGED evcur
    /\ UNCHANGED callVars
    /\ UNCHANGED <<supVars, selVars>>

\* recv(): let mut rx = self.channel.0.subscribe(), a new receiver in
\* every call.
Recv_Subscribe(c) ==
    /\ cop[c] = "recv"
    /\ cpc[c] = "subscribe"
    /\ evn' = Set(evn, c, SubscribePos(evChan[tgt[c]]))
    /\ seen' = Set(seen, c, IF seen[c] = NoSub THEN SubscribePos(evChan[tgt[c]])
                                                ELSE seen[c])
    /\ cpc' = Set(cpc, c, "recv")
    /\ UNCHANGED <<cop, tgt, idx, cur, got, conn, pst, sel, cli, applied, ret>>
    /\ UNCHANGED <<log, lagged, evcur>>
    /\ UNCHANGED <<supVars, selVars>>

\* recv(): rx.recv().await; the call returns, the receiver is dropped, and
\* the caller calls recv() again.
Recv_Recv(c) ==
    /\ cop[c] = "recv"
    /\ cpc[c] = "recv"
    /\ RecvReady(evChan[tgt[c]], evn[c])
    /\ log' = Set(log, c, Append(log[c], EventRecv(evChan[tgt[c]], evn[c])))
    /\ lagged' = Set(lagged, c, lagged[c] \/ RecvLagged(evChan[tgt[c]], evn[c], EventCap))
    /\ evn' = Set(evn, c, NoSub)
    /\ UNCHANGED evcur
    /\ cpc' = Set(cpc, c, "subscribe")
    /\ UNCHANGED <<cop, tgt, idx, cur, got, conn, pst, sel, cli, applied, ret, seen>>
    /\ UNCHANGED <<supVars, selVars>>

-----------------------------------------------------------------------------
(***************************************************************************)
(* MultiHostClient::recv: select_all over one PersistentClient::recv per   *)
(* client.  The first poll runs the futures in registry order: each        *)
(* subscribes to the events of its host and polls its receiver; the first  *)
(* receiver with a value ends the call and the others are dropped.         *)
(***************************************************************************)
\* select_all is ready with the result of the recv on host h.
MultiRecv_Resolved(c, h) ==
    /\ ret' = Set(ret, c, Returned("Event", <<EventRecv(evChan[h], evcur[c][h])>>))
    /\ evcur' = Set(evcur, c, NoSubs)
    /\ cpc' = Set(cpc, c, "done")

\* client.recv() of client idx[c]: self.channel.0.subscribe().
MultiRecv_Subscribe(c) ==
    /\ cop[c] = "multi_recv"
    /\ cpc[c] = "subscribe"
    /\ evcur' = Set2(evcur, c, idx[c], SubscribePos(evChan[idx[c]]))
    /\ cpc' = Set(cpc, c, "poll")
    /\ UNCHANGED <<cop, tgt, idx, cur, got, conn, pst, sel, cli, applied, ret, seen>>
    /\ UNCHANGED <<evn, log, lagged>>
    /\ UNCHANGED <<supVars, selVars>>

\* The first poll of rx.recv() of client idx[c]; when it is pending,
\* select_all polls the next client.
MultiRecv_Poll(c) ==
    /\ cop[c] = "multi_recv"
    /\ cpc[c] = "poll"
    /\ IF RecvReady(evChan[idx[c]], evcur[c][idx[c]])
       THEN /\ MultiRecv_Resolved(c, idx[c])
            /\ UNCHANGED idx
       ELSE /\ IF idx[c] < NumHosts
               THEN /\ idx' = Set(idx, c, idx[c] + 1)
                    /\ cpc' = Set(cpc, c, "subscribe")
               ELSE /\ cpc' = Set(cpc, c, "wait")
                    /\ UNCHANGED idx
            /\ UNCHANGED <<ret, evcur>>
    /\ UNCHANGED <<cop, tgt, cur, got, conn, pst, sel, cli, applied, seen>>
    /\ UNCHANGED <<evn, log, lagged>>
    /\ UNCHANGED <<supVars, selVars>>

\* A later poll: the receiver of client h has a value.
MultiRecv_Wake(c, h) ==
    /\ cop[c] = "multi_recv"
    /\ cpc[c] = "wait"
    /\ evcur[c][h] # NoSub
    /\ RecvReady(evChan[h], evcur[c][h])
    /\ MultiRecv_Resolved(c, h)
    /\ UNCHANGED <<cop, tgt, idx, cur, got, conn, pst, sel, cli, applied, seen>>
    /\ UNCHANGED <<evn, log, lagged>>
    /\ UNCHANGED <<supVars, selVars>>

MultiRecv(c) ==
    \/ MultiRecv_Subscribe(c)
    \/ MultiRecv_Poll(c)
    \/ \E h \in Hosts : MultiRecv_Wake(c, h)

-----------------------------------------------------------------------------
(***************************************************************************)
(* The state after construction (PersistentClient::new, and               *)
(* MultiHostClient::new for each host): every host Disconnected, both      *)
(* channels empty, no task spawned yet.  `ops` are the operations the      *)
(* callers may run, `active` the callers that run one, `hosts` the hosts   *)
(* a call on one PersistentClient may address, `events` the events the     *)
(* server of each host will emit, `inputs` the inputs of the selection.    *)
(***************************************************************************)
\* The operations of MultiHostClient.
MultiOps == {"wait_for_any_client", "wait_for_all_clients", "with_client",
             "status", "current_song", "multi_recv"}

FirstPc(op) ==
    CASE op = "idle" -> "done"
      [] op = "subscribe" -> "subscribe"
      [] op = "recv" -> "subscribe"
      [] op = "multi_recv" -> "subscribe"
      [] OTHER -> "read"

InitWith(ops, active, hosts, events, inputs) ==
    /\ spc = [h \in Hosts |-> "idle"]
    /\ state = [h \in Hosts |-> Disconnected]
    /\ nconn = [h \in Hosts |-> 0]
    /\ connChan = [h \in Hosts |-> <<>>]
    /\ evChan = [h \in Hosts |-> <<>>]
    /\ evLeft = [h \in Hosts |-> events]
    /\ cop \in [Callers -> ops \cup {"idle"}]
    /\ \A c \in Callers : cop[c] = "idle" <=> c \notin active
    /\ cpc = [c \in Callers |-> FirstPc(cop[c])]
    /\ tgt \in [Callers -> hosts]
    /\ \A c \in Callers : cop[c] \in {"idle"} \cup MultiOps => tgt[c] = 1
    /\ idx = [c \in Callers |-> 1]
    /\ cur = [c \in Callers |-> [h \in Hosts |-> NoSub]]
    /\ got = [c \in Callers |-> [h \in Hosts |-> NoClient]]
    /\ conn = [c \in Callers |-> {}]
    /\ pst = [c \in Callers |-> [h \in Hosts |-> "none"]]
    /\ sel = [c \in Callers |-> 0]
    /\ cli = [c \in Callers |-> NoClient]
    /\ applied = [c \in Callers |-> <<>>]
    /\ ret = [c \in Callers |-> Returned("none", <<>>)]
    /\ seen = [c \in Callers |-> NoSub]
    /\ evn = [c \in Callers |-> NoSub]
    /\ log = [c \in Callers |-> <<>>]
    /\ lagged = [c \in Callers |-> FALSE]
    /\ evcur = [c \in Callers |-> [h \in Hosts |-> NoSub]]
    /\ selIn \in inputs
    /\ selOut = NoSub

(***************************************************************************)
(* Spec: the hosts' background tasks and callers of wait_for_client.       *)
(***************************************************************************)
\* The host of an application that creates one PersistentClient.
Single == {1}

Init == InitWith({"wait_for_client"}, Callers, Single, 1, {<<>>})

Next ==
    \/ \E h \in Single : Supervisor(h)
    \/ \E c \in Callers : WaitForClient(c)

Spec == Init /\ [][Next]_vars

(***************************************************************************)
(* The specifications of MultiHostClient: the tasks of all the hosts and   *)
(* one caller of wait_for_all_clients (SpecAll), of wait_for_any_client    *)
(* (SpecAny), of with_client, status or current_song (SpecCurrent).  The   *)
(* sessions emit no events other than the closure.                         *)
(***************************************************************************)
SupervisorQuiet(h) ==
    \/ InitLoop(h)
    \/ ConnectOk(h)
    \/ SendClient(h)
    \/ ConnectionClosed(h)
    \/ StreamEnd(h)
    \/ ConnectFail(h)
    \/ Sleep(h)

InitAll == InitWith({"wait_for_all_clients"}, {1}, Single, 0, {<<>>})

NextAll ==
    \/ \E h \in Hosts : SupervisorQuiet(h)
    \/ \E c \in Callers : WaitForAll(c)

SpecAll == InitAll /\ [][NextAll]_vars

InitCurrent == InitWith(GccOps, {1}, Single, 0, {<<>>})

NextCurrent ==
    \/ \E h \in Hosts : SupervisorQuiet(h)
    \/ \E c \in Callers : WaitForAny(c)
    \/ \E c \in Callers : GetCurrent(c)
    \/ \E c \in Callers : OnSelected(c)

SpecCurrent == InitCurrent /\ [][NextCurrent]_vars


InitAny == InitWith({"wait_for_any_client"}, {1}, Single, 0, {<<>>})

NextAny ==
    \/ \E h \in Hosts : SupervisorQuiet(h)
    \/ \E c \in Callers : WaitForAny(c)

SpecAny == InitAny /\ [][NextAny]_vars

(***************************************************************************)
(* Fairness.  A spawned task runs: init() starts the loop, a connect       *)
(* attempt ends (one way or the other), the client stored is sent, a sleep *)
(* ends.  Nothing makes a connect attempt succeed and nothing makes a      *)
(* session end.  A caller that can take a step takes one, and a command    *)
(* that was sent is answered.                                              *)
(***************************************************************************)
SupervisorFair ==
    \A h \in Hosts :
        /\ WF_vars(InitLoop(h))
        /\ WF_vars(ConnectOk(h) \/ ConnectFail(h))
        /\ WF_vars(SendClient(h))
        /\ WF_vars(Sleep(h))

\* The same for an application with one PersistentClient.
SingleFair ==
    \A h \in Single :
        /\ WF_vars(InitLoop(h))
        /\ WF_vars(ConnectOk(h) \/ ConnectFail(h))
        /\ WF_vars(SendClient(h))
        /\ WF_vars(Sleep(h))

\* One PersistentClient and one caller of wait_for_client.
InitOne == InitWith({"wait_for_client"}, {1}, Single, 1, {<<>>})

SpecOne == InitOne /\ [][Next]_vars

FairLoop ==
    /\ SpecOne
    /\ SingleFair
    /\ \A c \in Callers : WF_vars(WaitForClient(c))

FairAny ==
    /\ SpecAny
    /\ SupervisorFair
    /\ \A c \in Callers : WF_vars(WaitForAny(c))

FairAll ==
    /\ SpecAll
    /\ SupervisorFair
    /\ \A c \in Callers : WF_vars(WaitForAll(c))

FairCurrent ==
    /\ SpecCurrent
    /\ SupervisorFair
    /\ \A c \in Callers : WF_vars(WaitForAny(c) \/ GetCurrent(c) \/ OnSelected(c))

(***************************************************************************)
(* SpecSubscribe: one PersistentClient and a caller that takes a receiver  *)
(* with subscribe() and reads it at its own pace.                          *)
(* SpecRecv: one PersistentClient and a caller that calls recv() again and *)
(* again.                                                                  *)
(***************************************************************************)
InitSubscribe == InitWith({"subscribe"}, {1}, Single, MaxEvents, {<<>>})

NextSubscribe ==
    \/ \E h \in Single : Supervisor(h)
    \/ \E c \in Callers : Subscribe(c)
    \/ \E c \in Callers : Subscriber_Recv(c)

SpecSubscribe == InitSubscribe /\ [][NextSubscribe]_vars

InitRecv == InitWith({"recv"}, {1}, Single, MaxFeed, {<<>>})

NextRecv ==
    \/ \E h \in Single : Supervisor(h)
    \/ \E c \in Callers : Recv_Subscribe(c)
    \/ \E c \in Callers : Recv_Recv(c)

SpecRecv == InitRecv /\ [][NextRecv]_vars

(***************************************************************************)
(* SpecCommand: one PersistentClient and callers of command (with_client   *)
(* with a command as the callback).                                        *)
(***************************************************************************)
InitCommand == InitWith({"command"}, Callers, Single, 0, {<<>>})

NextCommand ==
    \/ \E h \in Single : SupervisorQuiet(h)
    \/ \E c \in Callers : PersistentWith(c)

SpecCommand == InitCommand /\ [][NextCommand]_vars

(***************************************************************************)
(* SpecFrame: every host's background task and one caller of any operation *)
(* of the first PersistentClient or of MultiHostClient (current_song is    *)
(* status with another request).  The sessions of the first host emit an   *)
(* event when the caller is one that reads events.                         *)
(***************************************************************************)
EventOps == {"subscribe", "recv", "multi_recv"}

QuietOps == {"wait_for_client", "command"}
              \cup (MultiOps \ {"current_song", "multi_recv"})

InitFrame ==
    \/ InitWith(EventOps, {1}, Single, 1, {<<>>})
    \/ InitWith(QuietOps, {1}, Single, 0, {<<>>})

NextFrame ==
    \/ \E h \in Single : Supervisor(h)
    \/ \E h \in Hosts \ Single : SupervisorQuiet(h)
    \/ \E c \in Callers : WaitForClient(c)
    \/ \E c \in Callers : PersistentWith(c)
    \/ \E c \in Callers : Subscribe(c)
    \/ \E c \in Callers : Subscriber_Recv(c)
    \/ \E c \in Callers : Recv_Subscribe(c)
    \/ \E c \in Callers : Recv_Recv(c)
    \/ \E c \in Callers : WaitForAny(c)
    \/ \E c \in Callers : WaitForAll(c)
    \/ \E c \in Callers : GetCurrent(c)
    \/ \E c \in Callers : OnSelected(c)
    \/ \E c \in Callers : MultiRecv(c)

SpecFrame == InitFrame /\ [][NextFrame]_vars

(***************************************************************************)
(* SpecSelect: the selection of get_current_client as a function of the    *)
(* (client, state) pairs of the status queries: any non-empty set of       *)
(* connected clients, in registry order, each with any play state.         *)
(***************************************************************************)
SelClients == 1..SelHosts

SelInputs ==
    UNION {
        { [i \in 1..Cardinality(S) |-> <<InOrder(S)[i], f[InOrder(S)[i]]>>] :
            f \in [S -> PlayStates] } :
        S \in (SUBSET SelClients) \ {{}} }

InitSelect == InitWith({}, {}, Single, 0, SelInputs)

Select_Apply ==
    /\ selOut = NoSub
    /\ selOut' = SelectCurrent(selIn)
    /\ UNCHANGED selIn
    /\ UNCHANGED <<supVars, callVars, evVars>>

SpecSelect == InitSelect /\ [][Select_Apply]_vars

-----------------------------------------------------------------------------
(***************************************************************************)
(* The claims.                                                             *)
(***************************************************************************)

\* C1 (as claimed): a wait_for_client call that read the state as
\* Disconnected resolves with the client of the first connect that
\* succeeds after that read, and so two calls that were pending across the
\* same connect resolve with the same client.
C1_ResolvesWithNextConnect ==
    /\ \A c \in Callers :
          (cop[c] = "wait_for_client" /\ cpc[c] = "done" /\ seen[c] # NoSub)
             => ret[c].val = << <<tgt[c], seen[c] + 1>> >>
    /\ \A c, d \in Callers :
          (/\ cop[c] = "wait_for_client" /\ cop[d] = "wait_for_client"
           /\ cpc[c] = "done" /\ cpc[d] = "done"
           /\ tgt[c] = tgt[d]
           /\ seen[c] # NoSub /\ seen[c] = seen[d])
             => ret[c] = ret[d]

\* C2 (as claimed): whenever the task of a host is about to attempt a
\* connect, the state of that host is Disconnected.
C2_DisconnectedAtConnect ==
    \A h \in Hosts : spc[h] = "connect" => state[h] = Disconnected

\* C3: when every status query succeeded, the selection returns the first
\* client in registry order that is Playing; without one, the first that
\* is Paused; without one, the first that is Stopped.
C3_Where(st) == {i \in DOMAIN selIn : selIn[i][2] = st}

C3_SelectionPriority ==
    selOut # NoSub =>
        /\ C3_Where("Playing") # {}
              => selOut = selIn[Min(C3_Where("Playing"))][1]
        /\ (C3_Where("Playing") = {} /\ C3_Where("Paused") # {})
              => selOut = selIn[Min(C3_Where("Paused"))][1]
        /\ (C3_Where("Playing") = {} /\ C3_Where("Paused") = {})
              => selOut = selIn[Min(C3_Where("Stopped"))][1]
        /\ selIn = << <<1, "Stopped">>, <<2, "Playing">>, <<3, "Paused">> >>
              => selOut = 2
        /\ selIn = << <<1, "Stopped">>, <<2, "Paused">> >> => selOut = 2
        /\ selIn = << <<1, "Stopped">>, <<2, "Stopped">> >> => selOut = 1

C3_Witness ==
    /\ selIn = << <<1, "Stopped">>, <<2, "Playing">>, <<3, "Paused">> >>
    /\ selOut = 2

\* C4 (as claimed): with_client on a MultiHostClient none of whose hosts
\* is ever connected eventually returns NoHostConnectedError.
C4_NoHostEventually ==
    \A c \in Callers :
        (cop[c] = "with_client" /\ [](\A h \in Hosts : ~IsConnected(h)))
            => <>(cpc[c] = "done" /\ ret[c].tag = "NoHostConnectedError")

\* C5: once a status query of the selection has failed, the call applies
\* its operation to no client and selects none, and when it returns it
\* returns CommandError with the failure of the first failed query in
\* registry order, whatever the other clients answered.
C5_Failed(c) == {h \in conn[c] : pst[c][h] = "failed"}

C5_FailFast ==
    \A c \in Callers :
        (cop[c] \in GccOps /\ C5_Failed(c) # {}) =>
            /\ applied[c] = <<>>
            /\ sel[c] = 0
            /\ cpc[c] \in {"s_read", "s_subscribe", "s_poll", "s_wait", "done"}
            /\ cpc[c] = "done" =>
                  ret[c] = Returned("CommandError", <<got[c][Min(C5_Failed(c))]>>)

C5_Witness ==
    \E c \in Callers : \E h \in Hosts :
        /\ cop[c] = "with_client"
        /\ cpc[c] = "done"
        /\ C5_Failed(c) # {}
        /\ h \in conn[c]
        /\ pst[c][h] \in PlayStates
        /\ ret[c].tag = "CommandError"

\* C6 (as claimed): whatever the pace of its reads, a receiver taken with
\* subscribe() has read exactly the events forwarded since, in order and
\* without a gap.
C6_ObservesAll ==
    \A c \in Callers :
        (cop[c] = "subscribe" /\ cpc[c] = "recv") =>
            log[c] = SubSeq(evChan[tgt[c]], seen[c] + 1, seen[c] + Len(log[c]))

\* C6 (amended): a receiver taken with subscribe() none of whose reads came
\* more than EventCap events late has read exactly the events forwarded
\* since its subscription up to its position, in order.
C6_ObservesAllInTime ==
    \A c \in Callers :
        (cop[c] = "subscribe" /\ cpc[c] = "recv" /\ ~lagged[c]) =>
            /\ evn[c] = seen[c] + Len(log[c])
            /\ log[c] = SubSeq(evChan[tgt[c]], seen[c] + 1, evn[c])

\* The receiver has read every event of a run of more than EventCap events
\* and the session is over.
C6_Witness ==
    \E c \in Callers :
        /\ cop[c] = "subscribe"
        /\ seen[c] = 0
        /\ ~lagged[c]
        /\ Len(log[c]) > EventCap
        /\ log[c] = evChan[tgt[c]]
        /\ spc[tgt[c]] = "sleep"

\* C7 (as claimed): the events a caller gets from its successive recv()
\* calls are the events forwarded since its first call, in order and
\* without a gap.
C7_RecvInOrder ==
    \A c \in Callers :
        (cop[c] = "recv" /\ seen[c] # NoSub) =>
            log[c] = SubSeq(evChan[tgt[c]], seen[c] + 1, seen[c] + Len(log[c]))

\* C8 (as claimed): wait_for_any_client returns a client that a host
\* stored as connected, and it returns if from some time on a host is
\* connected.
C8_AnyResolves ==
    \A c \in Callers :
        /\ [](cop[c] = "wait_for_any_client" /\ cpc[c] = "done"
                => \E h \in Hosts : /\ ret[c].val[1][1] = h
                                    /\ ret[c].val[1][2] \in 1..nconn[h])
        /\ (cop[c] = "wait_for_any_client" /\ <>[](\E h \in Hosts : IsConnected(h)))
              => <>(cpc[c] = "done")

\* C9: wait_for_all_clients returns only after every host has connected at
\* least once, and the i-th client it returns is one that the i-th host
\* stored as connected.
C9_AllInOrder ==
    \A c \in Callers :
        (cop[c] = "wait_for_all_clients" /\ cpc[c] = "done") =>
            /\ \A h \in Hosts : nconn[h] >= 1
            /\ ret[c].tag = "Clients"
            /\ Len(ret[c].val) = NumHosts
            /\ \A i \in Hosts :
                  /\ ret[c].val[i][1] = i
                  /\ ret[c].val[i][2] \in 1..nconn[i]

\* wait_for_all_clients returned although the session of the first host
\* had closed before the last host connected.
C9_Witness ==
    \E c \in Callers :
        /\ cop[c] = "wait_for_all_clients"
        /\ cpc[c] = "done"
        /\ state[1] = Disconnected
        /\ ret[c].val[1] = <<1, 1>>

\* C10 (as claimed): a wait_for_all_clients call returns once every host
\* has connected at least once.
C10_AllResolves ==
    \A c \in Callers :
        (cop[c] = "wait_for_all_clients" /\ \A h \in Hosts : <>(nconn[h] >= 1))
            => <>(cpc[c] = "done")

\* C11: as long as no connect attempt of a host has succeeded, is_connected()
\* is false and no wait_for_client call on that host has returned anything,
\* a client or an error.
C11_NeverResolves ==
    \A h \in Single :
        nconn[h] = 0 =>
            /\ ~IsConnected(h)
            /\ \A c \in Callers :
                  (cop[c] = "wait_for_client" /\ tgt[c] = h) =>
                      /\ cpc[c] \in {"read", "subscribe", "recv"}
                      /\ ret[c] = Returned("none", <<>>)
                      /\ got[c][h] = NoClient

\* A connect attempt has failed and every caller is suspended in recv.
C11_Witness ==
    /\ nconn[1] = 0
    /\ spc[1] = "sleep"
    /\ \A c \in Callers : cop[c] = "wait_for_client" /\ cpc[c] = "recv"

\* C12: from the store of a successful connection until the end of the
\* session is_connected() is true and the state holds the client of that
\* connection; a wait_for_client call that reads the state as Connected
\* returns the stored client in that step, without a receiver.
C12_ConnectedImmediately ==
    /\ [](\A h \in Single :
            spc[h] \in {"send", "events"} =>
                IsConnected(h) /\ state[h] = CurrentClient(h))
    /\ [][\A c \in Callers :
            (/\ cop[c] = "wait_for_client"
             /\ cpc[c] = "read" /\ cpc'[c] # "read"
             /\ IsConnected(tgt[c]))
               => /\ cpc'[c] = "done"
                  /\ ret'[c] = Returned("Client", <<state[tgt[c]]>>)
                  /\ cur'[c] = cur[c]
                  /\ cur[c][tgt[c]] = NoSub]_vars

\* A call returned the stored client before the loop had sent it on the
\* connection channel.
C12_Witness ==
    \E c \in Callers :
        /\ cop[c] = "wait_for_client"
        /\ cpc[c] = "done"
        /\ seen[c] = NoSub
        /\ spc[tgt[c]] = "send"
        /\ ret[c] = Returned("Client", <<state[tgt[c]]>>)

\* C13: command (with_client) sends its command once, on the client that
\* its wait_for_client gave it, and returns the outcome of that command,
\* a failure included, also when the session of that client has closed or
\* a new client has replaced it in the meantime.
C13_AppliedOnce ==
    \A c \in Callers :
        cop[c] = "command" =>
            /\ Len(applied[c]) <= 1
            /\ cpc[c] \in {"reply", "done"} <=> Len(applied[c]) = 1
            /\ Len(applied[c]) = 1 =>
                  /\ applied[c][1] = cli[c]
                  /\ cli[c][1] = tgt[c]
                  /\ cli[c][2] \in 1..nconn[tgt[c]]
            /\ cpc[c] = "done" =>
                  ret[c] = Returned(pst[c][tgt[c]], <<cli[c]>>)
            /\ cpc[c] # "done" => ret[c] = Returned("none", <<>>)

\* The command failed after a new client had replaced the one it was sent
\* on, and the failure was returned.
C13_Witness ==
    \E c \in Callers :
        /\ cop[c] = "command"
        /\ cpc[c] = "done"
        /\ ret[c].tag = "failed"
        /\ IsConnected(tgt[c])
        /\ state[tgt[c]] # cli[c]
        /\ applied[c] = <<cli[c]>>

\* C14: the loop of a host never stops; a failed connect attempt and the
\* end of a session lead to the sleep, the sleep leads to the next connect
\* attempt and to nothing else, and a connect attempt only starts from
\* init() or from the sleep.
C14_Step(h) ==
    /\ (spc[h] = "connect" /\ spc'[h] # "connect") =>
          \/ spc'[h] = "sleep" /\ state'[h] = Disconnected
          \/ spc'[h] = "send" /\ nconn'[h] = nconn[h] + 1
    /\ (spc[h] = "events" /\ spc'[h] # "events") => spc'[h] = "sleep"
    /\ (spc[h] = "sleep" /\ spc'[h] # "sleep") => spc'[h] = "connect"
    /\ (spc'[h] = "connect" /\ spc[h] # "connect") => spc[h] \in {"idle", "sleep"}

C14_RetryCadence ==
    /\ [][\A h \in Single : C14_Step(h)]_vars
    /\ \A h \in Single :
          /\ [](spc[h] # "panicked")
          /\ [](spc[h] = "sleep" => <>(spc[h] = "connect"))
          /\ [](spc[h] = "connect" => <>(spc[h] \in {"sleep", "send"}))
          /\ [](spc[h] = "send" => <>(spc[h] = "events"))

\* The loop attempts to connect again after two sessions have ended.
C14_Witness ==
    /\ spc[1] = "connect"
    /\ nconn[1] >= 2
    /\ state[1] = Disconnected

\* C15: the loop can forward the next event whatever the receivers have
\* read; a read that comes more than EventCap events late returns a lag
\* marker with the number of events lost, and the events and lag markers a
\* receiver has read account for every event forwarded between its
\* subscription and its position.
RECURSIVE C15_Count(_, _)
C15_Count(l, k) ==
    IF k = 0 THEN 0
    ELSE C15_Count(l, k - 1) + (IF l[k][1] = 0 THEN l[k][2] ELSE 1)

C15_Read(c) ==
    /\ cop[c] = "subscribe"
    /\ cpc[c] = "recv"
    /\ log'[c] # log[c]

C15_NeverBlocksLagExplicit ==
    /\ [](\A h \in Single :
            (spc[h] = "events" /\ evLeft[h] > 0) => ENABLED ForwardEvent(h))
    /\ [](\A c \in Callers :
            (cop[c] = "subscribe" /\ cpc[c] = "recv") =>
                /\ evn[c] = seen[c] + C15_Count(log[c], Len(log[c]))
                /\ \A i \in 1..Len(log[c]) :
                      IF log[c][i][1] = 0
                      THEN log[c][i][2] >= 1
                      ELSE log[c][i] = evChan[tgt[c]][seen[c] + C15_Count(log[c], i)])
    /\ [][\A c \in Callers :
            C15_Read(c) =>
                /\ Len(log'[c]) = Len(log[c]) + 1
                /\ (Len(evChan[tgt[c]]) - evn[c] > EventCap)
                      <=> (log'[c][Len(log'[c])][1] = 0)]_vars

\* The receiver read nothing while more than EventCap events were
\* forwarded, then read the lag marker and the events the channel held.
C15_Witness ==
    \E c \in Callers :
        /\ cop[c] = "subscribe"
        /\ seen[c] = 0
        /\ Len(evChan[tgt[c]]) > EventCap
        /\ Len(log[c]) = EventCap + 1
        /\ log[c][1] = <<0, Len(evChan[tgt[c]]) - EventCap>>
        /\ evn[c] = Len(evChan[tgt[c]])

\* C16 (as claimed): a host is Connected exactly when the client of its
\* most recent successful connect has been sent to the waiters and neither
\* a closure nor a later connect failure has been seen: a Connected host
\* has sent its current client, and a host whose session is being read is
\* Connected.
C16_ConnectedIffPublished ==
    \A h \in Single :
        /\ IsConnected(h) =>
              /\ nconn[h] >= 1
              /\ state[h] = CurrentClient(h)
              /\ Len(connChan[h]) = nconn[h]
              /\ connChan[h][Len(connChan[h])] = state[h]
        /\ spc[h] = "events" => IsConnected(h)
        /\ ~IsConnected(h) => spc[h] \in {"idle", "connect", "sleep"}

\* C17: a step that changes the state of a host is a step of that host's
\* own loop, out of a connect attempt or out of a session: it changes
\* nothing of any caller and nothing of another host.
C17_Writes(h) ==
    /\ spc[h] \in {"connect", "events"}
    /\ spc'[h] # spc[h]
    /\ callVars' = callVars
    /\ evVars' = evVars
    /\ \A g \in Hosts \ {h} : state'[g] = state[g] /\ spc'[g] = spc[g]

C17_OnlyOwnLoopWrites ==
    [][\A h \in Hosts : state'[h] # state[h] => C17_Writes(h)]_vars

\* with_client of the MultiHostClient went through selection and callback
\* while one host was connected and another had lost its session.
C17_Witness ==
    \E c \in Callers : \E h, g \in Hosts :
        /\ cop[c] = "with_client"
        /\ cpc[c] = "done"
        /\ applied[c] # <<>>
        /\ IsConnected(h)
        /\ ~IsConnected(g)
        /\ nconn[g] >= 1

\* C18 (as claimed): once wait_for_any_client has resolved inside
\* get_current_client, and if from some time on a host stays connected, the
\* selection of a with_client, status or current_song call comes to its end
\* (fair scheduling answers every status query that was sent).
C18_SelectionCompletes ==
    \A c \in Callers :
        (/\ cop[c] \in GccOps
         /\ <>(cpc[c] = "filter")
         /\ \E h \in Hosts : <>[]IsConnected(h))
            => <>(cpc[c] \in {"f_read", "f_subscribe", "f_recv", "f_apply", "done"})

\* C19: no send of the loop of a host fails, with or without receivers of
\* the callers: the loop never panics, every client stored has been sent
\* on the connection channel (but for the one being sent).
C19_SendsNeverFail ==
    \A h \in Hosts :
        /\ spc[h] # "panicked"
        /\ Len(connChan[h]) = IF spc[h] = "send" THEN nconn[h] - 1 ELSE nconn[h]
        /\ spc[h] = "send" => ENABLED SendClient(h)

\* No caller has created a receiver yet, and the loop has sent the clients
\* of two sessions and forwarded an event, and attempts to connect again.
C19_Witness ==
    /\ \A c \in Callers : cpc[c] = FirstPc(cop[c])
    /\ \A c \in Callers : \A h \in Hosts : cur[c][h] = NoSub /\ evcur[c][h] = NoSub
    /\ \A c \in Callers : evn[c] = NoSub
    /\ cop[1] = "subscribe"
    /\ Len(connChan[1]) = 2
    /\ Len(evChan[1]) = 1
    /\ spc[1] = "connect"

\* C20: a call whose selection chose a host runs its callback or command
\* once, on the client that a new wait on the chosen host gave it: a client
\* of that host, of the session whose status was queried or of a later one;
\* while the call waits for the chosen host to reconnect nothing has run,
\* and without a chosen host nothing runs.
C20_AppliedToSelected ==
    \A c \in Callers :
        cop[c] \in GccOps =>
            /\ Len(applied[c]) <= 1
            /\ sel[c] = 0 => applied[c] = <<>>
            /\ cpc[c] \in {"f_read", "f_subscribe", "f_recv", "f_apply"} =>
                  sel[c] # 0 /\ applied[c] = <<>>
            /\ (cpc[c] = "done" /\ sel[c] # 0) => Len(applied[c]) = 1
            /\ Len(applied[c]) = 1 =>
                  /\ applied[c][1] = cli[c]
                  /\ cli[c][1] = sel[c]
                  /\ cli[c][2] \in 1..nconn[sel[c]]
                  /\ cli[c][2] >= got[c][sel[c]][2]
                  /\ ret[c].val = <<cli[c]>>

\* The chosen host lost its session after selection: with_client waited
\* for the reconnect and ran the callback on the client of the new session.
C20_Witness ==
    \E c \in Callers :
        /\ cop[c] = "with_client"
        /\ cpc[c] = "done"
        /\ sel[c] # 0
        /\ got[c][sel[c]] = <<sel[c], 1>>
        /\ applied[c] = << <<sel[c], 2>> >>

=============================================================================
